---------------------------- MODULE Spec2Model ----------------------------
(***************************************************************************)
(* Model of utils/image_util.py: optimize_image_for_api and the file       *)
(* system it reads and writes.                                             *)
(*                                                                         *)
(* A path is a sequence of tokens; "/" is os.sep, "." is os.extsep and     *)
(* every other token stands for a run of characters holding neither.       *)
(* A file is a record: its size in bytes, the pixel dimensions of the      *)
(* image it holds, whether the codec can read it (kind) and the encoder    *)
(* options it was written with.                                            *)
(*                                                                         *)
(* Each call is a process c walking through the statements of the          *)
(* function; the file system calls and the codec calls are the steps.      *)
(* Spec runs the calls one after another (the program's single control     *)
(* flow), ConcSpec lets two calls overlap.                                 *)
(***************************************************************************)
EXTENDS Integers, Sequences, FiniteSets, TLC

VARIABLES
    fs,             \* the file system: path -> file, DOMAIN fs = existing paths
    pc,             \* pc[c]: the statement call c is at
    image_path,     \* argument image_path of call c
    max_size_mb,    \* argument max_size_mb of call c
    fault,          \* the step of call c that raised, "none" while none has
    file_size,      \* local file_size_mb of call c, kept in bytes
    img,            \* local img: <<width, height>> of the opened image
    new_size,       \* locals <<new_width, new_height>>
    resized_img,    \* local resized_img: <<width, height>>, <<>> before resize
    optimized_path, \* local optimized_path, <<>> before it is computed
    result,         \* the returned path, <<>> while none
    log,            \* the levels of the records call c sent to the logger
    ops,            \* how many decodes, resizes, encodes call c has made
    wrote,          \* the paths call c has written to
    orig,           \* the file system as call c found it
    lastWriter,     \* the running call whose write finished last, 0 if none
    save_args,      \* the keyword arguments call c passed to resized_img.save
    sink,           \* what the logger does with a record it is sent
    store,          \* the files and directories the other helpers work on
    helper,         \* the last call of one of the other helpers, and how it ended
    lg,             \* the import of utils/logger_util.py: where it is, what it did
    gui,            \* the file-selection window: its widgets and its last event
    disk            \* the paths that exist, as the file-selection window sees them

\* the variables of the other parts of the program
others == <<sink, store, helper, lg, gui, disk>>

vars == <<fs, pc, image_path, max_size_mb, fault, file_size, img, new_size,
          resized_img, optimized_path, result, log, ops, wrote, orig,
          lastWriter, save_args, others>>

-----------------------------------------------------------------------------
(* Bounds *)

\* the "_optimized" suffixes a call's input path may already carry
MaxChain == 1

\* the calls that can be in progress at once
Procs == {1, 2}

\* the program's own control flow, which issues its calls one at a time
Main == 1

-----------------------------------------------------------------------------
(* Program constants *)

MiB == 1024 * 1024

DefaultMaxSizeMB == 4

JpegQuality == 85

JpegExts == {"jpg", "jpeg"}

\* budgets the callers pass, in MB
Budgets == {1, DefaultMaxSizeMB}

-----------------------------------------------------------------------------
(* Paths *)

NoPath == <<>>

Suffix == "_optimized"

BasePaths ==
    { <<"d", "/", "a", ".", "jpg">>,
      <<"a", ".", "JPG">>,
      <<"a", ".", "jpeg">>,
      <<"a", ".", "b", ".", "png">>,
      <<"d", ".", "x", "/", "a">>,
      <<".", "a">> }

\* a path no file is ever stored at
MissingPath == <<"gone", ".", "jpg">>

\* str.rfind: the last index of t in p, 0 when there is none
RFind(p, t) ==
    LET I == {i \in 1..Len(p) : p[i] = t}
    IN  IF I = {} THEN 0 ELSE CHOOSE i \in I : \A j \in I : j <= i

\* os.path.splitext: the extension starts at the last dot of the last
\* component, unless only dots precede it in that component
splitext(p) ==
    LET sepIndex == RFind(p, "/")
        dotIndex == RFind(p, ".")
    IN  IF /\ dotIndex > sepIndex
           /\ \E k \in (sepIndex + 1)..(dotIndex - 1) : p[k] # "."
        THEN <<SubSeq(p, 1, dotIndex - 1), SubSeq(p, dotIndex, Len(p))>>
        ELSE <<p, <<>>>>

\* variant of OptimizedPath: one canonical name, a stem that already ends
\* in the suffix gets no second one
OptimizedPathCanonical(p) ==
    LET parts == splitext(p)
    IN  IF Len(parts[1]) > 0 /\ parts[1][Len(parts[1])] = Suffix
        THEN p
        ELSE parts[1] \o <<Suffix>> \o parts[2]

\* f"{filename}_optimized{ext}"
OptimizedPath(p) ==
    LET parts == splitext(p)
    IN  parts[1] \o <<Suffix>> \o parts[2]

\* str.lower on an extension
Lower(t) ==
    CASE t = "JPG"  -> "jpg"
      [] t = "JPEG" -> "jpeg"
      [] t = "PNG"  -> "png"
      [] OTHER      -> t

\* variant of IsJpegExt: the extension is compared as it is spelled
IsJpegExtCaseSensitive(ext) ==
    /\ Len(ext) = 2
    /\ ext[1] = "."
    /\ ext[2] \in JpegExts

\* ext.lower() in ['.jpg', '.jpeg']
IsJpegExt(ext) ==
    /\ Len(ext) = 2
    /\ ext[1] = "."
    /\ Lower(ext[2]) \in JpegExts

\* the extensions the codec has an encoder registered for
KnownExts == {"jpg", "jpeg", "png"}

CanEncodeTo(p) ==
    LET ext == splitext(p)[2]
    IN  /\ Len(ext) = 2
        /\ Lower(ext[2]) \in KnownExts

\* os.path.dirname
DirName(p) == SubSeq(p, 1, RFind(p, "/"))

\* how many "_optimized" suffixes a path carries
Chain(p) == Cardinality({i \in 1..Len(p) : p[i] = Suffix})

-----------------------------------------------------------------------------
(* Files *)

\* params: the keyword arguments the file was saved with
File(s, w, h, k, params) ==
    [size |-> s, width |-> w, height |-> h, kind |-> k, params |-> params]

\* a file this program did not write
Source == [source |-> TRUE]

\* the files a run can start from: within budget, at the budget exactly,
\* one byte over, well over; readable, unreadable header, unreadable data
BaseFiles ==
    { File(2 * MiB, 1000, 800, "ok", Source),
      File(4 * MiB, 1000, 800, "ok", Source),
      File(4 * MiB + 1, 20, 1, "ok", Source),
      File(6 * MiB, 1000, 800, "ok", Source),
      File(6 * MiB, 1000, 800, "badheader", Source),
      File(6 * MiB, 1000, 800, "baddata", Source),
      File(16 * MiB, 3, 1, "ok", Source),
      File(0, 0, 0, "badheader", Source) }

\* the sizes an encode can come out at: some within a budget, some over it
OutSizes == {3 * MiB, 5 * MiB}

\* what a save that fails part-way leaves behind
PartialFile == File(0, 0, 0, "badheader", [partial |-> TRUE])

Exists(p) == p \in DOMAIN fs

\* the file system after writing f at p (created or overwritten)
Written(p, f) ==
    [q \in DOMAIN fs \cup {p} |-> IF q = p THEN f ELSE fs[q]]

-----------------------------------------------------------------------------
(* Arithmetic *)

RECURSIVE GCD(_, _)
GCD(a, b) == IF b = 0 THEN a ELSE GCD(b, a % b)

\* variant of WithinLimit: a file exactly at the limit counts as over it
WithinLimitStrict(bytes, mb) == bytes < mb * MiB

\* file_size_mb <= max_size_mb, file_size_mb = bytes / (1024 * 1024):
\* the division by a power of two is exact
WithinLimit(bytes, mb) == bytes <= mb * MiB

\* variant of Scaled: the ratio of the sizes taken as the scale factor,
\* without the square root
ScaledLinear(dim, mb, bytes) == (dim * mb) \div (bytes \div MiB)

\* int(dim * (max_size_mb / file_size_mb) ** 0.5): the largest n with
\* n * n * file_size <= dim * dim * max_size
Scaled(dim, mb, bytes) ==
    LET g == GCD(mb * MiB, bytes)
        m == (mb * MiB) \div g
        b == bytes \div g
    IN  CHOOSE n \in 0..dim :
            /\ n * n * b <= dim * dim * m
            /\ (n + 1) * (n + 1) * b > dim * dim * m

\* variant of NewSize: a dimension is never taken below one pixel
NewSizeAtLeastOne(w, h, mb, bytes) ==
    << IF Scaled(w, mb, bytes) = 0 THEN 1 ELSE Scaled(w, mb, bytes),
       IF Scaled(h, mb, bytes) = 0 THEN 1 ELSE Scaled(h, mb, bytes) >>

\* new_width and new_height: both dimensions under the one scale factor,
\* each truncated by int() and used as it comes out
NewSize(w, h, mb, bytes) == <<Scaled(w, mb, bytes), Scaled(h, mb, bytes)>>

-----------------------------------------------------------------------------
(* The calls *)

\* what the environment can make of a save: it works, it raises before the
\* file is opened, it raises after the file was opened for writing
Faults == {"none", "encode", "encode_partial"}

NoOps == [decode |-> 0, resize |-> 0, encode |-> 0]

\* save has not been called
NoArgs == [called |-> FALSE]

\* a logger with a sink that takes the records, with a sink that drops
\* them, with no sink at all
Sinks == {"accepted", "discarded", "absent"}

\* no call in progress, one file out of F stored at a path out of P
ImageInit(P, F) ==
    /\ \E p \in P, f \in F : fs = (p :> f)
    /\ pc = [c \in Procs |-> "idle"]
    /\ image_path = [c \in Procs |-> NoPath]
    /\ max_size_mb = [c \in Procs |-> DefaultMaxSizeMB]
    /\ fault = [c \in Procs |-> "none"]
    /\ file_size = [c \in Procs |-> 0]
    /\ img = [c \in Procs |-> <<>>]
    /\ new_size = [c \in Procs |-> <<>>]
    /\ resized_img = [c \in Procs |-> <<>>]
    /\ optimized_path = [c \in Procs |-> NoPath]
    /\ result = [c \in Procs |-> NoPath]
    /\ log = [c \in Procs |-> <<>>]
    /\ ops = [c \in Procs |-> NoOps]
    /\ wrote = [c \in Procs |-> {}]
    /\ orig = [c \in Procs |-> fs]
    /\ lastWriter = 0
    /\ save_args = [c \in Procs |-> NoArgs]

\* the values the helpers return
NoneValue == [type |-> "None"]

ListValue(items) == [type |-> "list", items |-> items]

StrValue(chars) == [type |-> "str", chars |-> chars]

TupleValue(items) == [type |-> "tuple", items |-> items]

NoCall ==
    [fn |-> "none", image_path |-> NoPath, output_folder |-> NoPath,
     outcome |-> "none", value |-> NoneValue, log |-> <<>>, read |-> <<>>]

\* the other helpers of image_util.py have not been called
HelperIdle ==
    /\ store = << >>
    /\ helper = NoCall

\* utils/logger_util.py has not been imported
NotImported ==
    [pc |-> "idle", handlers |-> {"default"}, frozen |-> FALSE,
     exe_dir |-> "", logs_dir |-> FALSE, test_file |-> FALSE,
     failed |-> "none", printed |-> {}, received |-> {}]

LoggerIdle == lg = NotImported

\* no file-selection window has been constructed
NoWindow == [open |-> FALSE]

GuiIdle ==
    /\ gui = NoWindow
    /\ disk = {}

Init ==
    /\ ImageInit(BasePaths, BaseFiles)
    /\ sink = "accepted"
    /\ HelperIdle
    /\ LoggerIdle
    /\ GuiIdle

\* the caller invokes optimize_image_for_api(p, m); line 58 logs
Call(c, p, m) ==
    /\ pc[c] = "idle"
    /\ p \in DOMAIN fs \cup {MissingPath}
    /\ Chain(p) <= MaxChain
    /\ pc' = [pc EXCEPT ![c] = "getsize"]
    /\ image_path' = [image_path EXCEPT ![c] = p]
    /\ max_size_mb' = [max_size_mb EXCEPT ![c] = m]
    /\ fault' = [fault EXCEPT ![c] = "none"]
    /\ file_size' = [file_size EXCEPT ![c] = 0]
    /\ img' = [img EXCEPT ![c] = <<>>]
    /\ new_size' = [new_size EXCEPT ![c] = <<>>]
    /\ resized_img' = [resized_img EXCEPT ![c] = <<>>]
    /\ optimized_path' = [optimized_path EXCEPT ![c] = NoPath]
    /\ result' = [result EXCEPT ![c] = NoPath]
    /\ log' = [log EXCEPT ![c] = <<"DEBUG">>]
    /\ ops' = [ops EXCEPT ![c] = NoOps]
    /\ wrote' = [wrote EXCEPT ![c] = {}]
    /\ orig' = [orig EXCEPT ![c] = fs]
    /\ save_args' = [save_args EXCEPT ![c] = NoArgs]
    /\ UNCHANGED <<fs, lastWriter, others>>

\* variant of Fallback: the except clause logs and re-raises
FallbackReraises(c) ==
    /\ log' = [log EXCEPT ![c] = @ \o <<"ERROR">>]
    /\ pc' = [pc EXCEPT ![c] = "raised"]
    /\ UNCHANGED result

\* variant of Fallback: the except clause returns the new file name
FallbackReturnsDerived(c) ==
    /\ log' = [log EXCEPT ![c] = @ \o <<"ERROR", "WARNING">>]
    /\ result' = [result EXCEPT ![c] = OptimizedPath(image_path[c])]
    /\ pc' = [pc EXCEPT ![c] = "done"]

\* variant of Fallback: the fallback is taken only when the error record
\* found a sink, the exception goes on to the caller otherwise
FallbackNeedsSink(c) ==
    /\ log' = [log EXCEPT ![c] = @ \o <<"ERROR", "WARNING">>]
    /\ IF sink = "accepted"
       THEN /\ result' = [result EXCEPT ![c] = image_path[c]]
            /\ pc' = [pc EXCEPT ![c] = "done"]
       ELSE /\ pc' = [pc EXCEPT ![c] = "raised"]
            /\ UNCHANGED result

\* the except clause: error and warning records, return image_path
Fallback(c) ==
    /\ log' = [log EXCEPT ![c] = @ \o <<"ERROR", "WARNING">>]
    /\ result' = [result EXCEPT ![c] = image_path[c]]
    /\ pc' = [pc EXCEPT ![c] = "done"]

\* os.path.getsize(image_path) and the comparison with max_size_mb; the
\* size query is made before the try block, so its OSError leaves the call
GetSize(c) ==
    /\ pc[c] = "getsize"
    /\ IF ~Exists(image_path[c])
       THEN /\ pc' = [pc EXCEPT ![c] = "raised"]
            /\ UNCHANGED <<file_size, log, result>>
       ELSE /\ file_size' = [file_size EXCEPT ![c] = fs[image_path[c]].size]
            /\ IF WithinLimit(fs[image_path[c]].size, max_size_mb[c])
               THEN /\ log' = [log EXCEPT ![c] = Append(@, "DEBUG")]
                    /\ result' = [result EXCEPT ![c] = image_path[c]]
                    /\ pc' = [pc EXCEPT ![c] = "done"]
               ELSE /\ log' = [log EXCEPT ![c] = Append(@, "INFO")]
                    /\ pc' = [pc EXCEPT ![c] = "open"]
                    /\ UNCHANGED result
    /\ UNCHANGED <<fs, image_path, max_size_mb, fault, img, new_size,
                   resized_img, optimized_path, ops, wrote, orig, lastWriter,
                   save_args, others>>

\* Image.open(image_path), then the scale factor and the new dimensions
Open(c) ==
    /\ pc[c] = "open"
    /\ ops' = [ops EXCEPT ![c].decode = @ + 1]
    /\ IF ~Exists(image_path[c]) \/ fs[image_path[c]].kind = "badheader"
       THEN /\ Fallback(c)
            /\ fault' = [fault EXCEPT ![c] = "decode"]
            /\ UNCHANGED <<img, new_size>>
       ELSE LET f == fs[image_path[c]]
            IN  /\ img' = [img EXCEPT ![c] = <<f.width, f.height>>]
                /\ new_size' = [new_size EXCEPT ![c] =
                       NewSize(f.width, f.height, max_size_mb[c],
                               file_size[c])]
                /\ log' = [log EXCEPT ![c] = @ \o <<"DEBUG", "DEBUG">>]
                /\ pc' = [pc EXCEPT ![c] = "resize"]
                /\ UNCHANGED <<result, fault>>
    /\ UNCHANGED <<fs, image_path, max_size_mb, file_size,
                   resized_img, optimized_path, wrote, orig, lastWriter,
                   save_args, others>>

\* img.resize((new_width, new_height), Image.LANCZOS), which loads the
\* pixel data, then the new file name.  A resize to an empty size raises
\* in some builds of the codec and yields an empty image in others.
Resize(c) ==
    /\ pc[c] = "resize"
    /\ ops' = [ops EXCEPT ![c].resize = @ + 1]
    /\ \E raises \in BOOLEAN :
          /\ Exists(image_path[c]) /\ fs[image_path[c]].kind = "baddata"
                => raises
          /\ ~(Exists(image_path[c]) /\ fs[image_path[c]].kind = "baddata")
                /\ new_size[c][1] > 0 /\ new_size[c][2] > 0
                => ~raises
          /\ IF raises
             THEN /\ Fallback(c)
                  /\ fault' = [fault EXCEPT ![c] = "resize"]
                  /\ UNCHANGED <<resized_img, optimized_path>>
             ELSE /\ resized_img' = [resized_img EXCEPT ![c] = new_size[c]]
                  /\ optimized_path' = [optimized_path EXCEPT ![c] =
                         OptimizedPath(image_path[c])]
                  /\ pc' = [pc EXCEPT ![c] = "save"]
                  /\ UNCHANGED <<log, result, fault>>
    /\ UNCHANGED <<fs, image_path, max_size_mb, file_size, img,
                   new_size, wrote, orig, lastWriter, save_args, others>>

\* the keyword arguments of resized_img.save for this extension
SaveParams(ext) ==
    IF IsJpegExt(ext)
    THEN [quality |-> JpegQuality, optimize |-> TRUE]
    ELSE [optimize |-> TRUE]

\* variant of SaveFile: a file that is there already is kept
SaveFileKeep(p, f) == IF Exists(p) THEN fs ELSE Written(p, f)

\* the file system after a save of f at p: the file is created, or
\* overwritten when there is one already
SaveFile(p, f) == Written(p, f)

\* variant of SaveTarget: the resized image is saved over the input
SaveTargetInPlace(c) == image_path[c]

\* the path handed to resized_img.save
SaveTarget(c) == optimized_path[c]

\* variant of SaveRaises: the file is opened for exclusive creation
SaveRaisesIfExists(c, flt) == flt # "none" \/ Exists(optimized_path[c])

\* whether the save raises, given what the environment makes of it: the
\* file is opened for writing whether or not it exists
SaveRaises(c, flt) == flt # "none"

\* resized_img.save(optimized_path, ...): raises before it opens the file
\* when no encoder is registered for the extension or the open fails,
\* raises after opening it when the encode or the write fails, and writes
\* the encoded image otherwise
Save(c) ==
    /\ pc[c] = "save"
    /\ ops' = [ops EXCEPT ![c].encode = @ + 1]
    /\ \E flt \in Faults, s \in OutSizes :
          LET p == SaveTarget(c)
              f == File(s, resized_img[c][1], resized_img[c][2], "ok",
                        SaveParams(splitext(image_path[c])[2]))
          IN  /\ ~CanEncodeTo(p) => flt = "encode"
              /\ fault' = [fault EXCEPT ![c] = flt]
              /\ save_args' = [save_args EXCEPT ![c] =
                     SaveParams(splitext(image_path[c])[2])]
              /\ IF SaveRaises(c, flt)
                 THEN /\ s = 3 * MiB
                      /\ Fallback(c)
                      /\ IF flt = "encode_partial"
                         THEN /\ fs' = SaveFile(p, PartialFile)
                              /\ wrote' = [wrote EXCEPT ![c] = @ \cup
                                     {[path |-> p, file |-> PartialFile]}]
                              /\ lastWriter' = c
                         ELSE UNCHANGED <<fs, wrote, lastWriter>>
                 ELSE /\ fs' = SaveFile(p, f)
                      /\ wrote' = [wrote EXCEPT ![c] =
                             @ \cup {[path |-> p, file |-> f]}]
                      /\ lastWriter' = c
                      /\ log' = [log EXCEPT ![c] = Append(@, "DEBUG")]
                      /\ pc' = [pc EXCEPT ![c] = "getsize2"]
                      /\ UNCHANGED result
    /\ UNCHANGED <<image_path, max_size_mb, file_size, img, new_size,
                   resized_img, optimized_path, orig, others>>

\* variant of GetSizeAfter: a file still over the limit gets another pass
GetSizeAfterRetry(c) ==
    /\ pc[c] = "getsize2"
    /\ IF ~Exists(optimized_path[c])
       THEN /\ Fallback(c)
            /\ fault' = [fault EXCEPT ![c] = "getsize2"]
       ELSE /\ log' = [log EXCEPT ![c] = Append(@, "INFO")]
            /\ IF WithinLimit(fs[optimized_path[c]].size, max_size_mb[c])
               THEN /\ result' = [result EXCEPT ![c] = optimized_path[c]]
                    /\ pc' = [pc EXCEPT ![c] = "done"]
               ELSE /\ pc' = [pc EXCEPT ![c] = "open"]
                    /\ UNCHANGED result
            /\ UNCHANGED fault
    /\ UNCHANGED <<fs, image_path, max_size_mb, file_size, img,
                   new_size, resized_img, optimized_path, ops, wrote, orig,
                   lastWriter, save_args, others>>

\* os.path.getsize(optimized_path), used for the log record only, and the
\* return of optimized_path
GetSizeAfter(c) ==
    /\ pc[c] = "getsize2"
    /\ IF ~Exists(optimized_path[c])
       THEN /\ Fallback(c)
            /\ fault' = [fault EXCEPT ![c] = "getsize2"]
       ELSE /\ log' = [log EXCEPT ![c] = Append(@, "INFO")]
            /\ result' = [result EXCEPT ![c] = optimized_path[c]]
            /\ pc' = [pc EXCEPT ![c] = "done"]
            /\ UNCHANGED fault
    /\ UNCHANGED <<fs, image_path, max_size_mb, file_size, img,
                   new_size, resized_img, optimized_path, ops, wrote, orig,
                   lastWriter, save_args, others>>

\* the call is over: the caller has the returned path, or the exception
Return(c) ==
    /\ pc[c] \in {"done", "raised"}
    /\ pc' = [pc EXCEPT ![c] = "idle"]
    /\ image_path' = [image_path EXCEPT ![c] = NoPath]
    /\ max_size_mb' = [max_size_mb EXCEPT ![c] = DefaultMaxSizeMB]
    /\ fault' = [fault EXCEPT ![c] = "none"]
    /\ file_size' = [file_size EXCEPT ![c] = 0]
    /\ img' = [img EXCEPT ![c] = <<>>]
    /\ new_size' = [new_size EXCEPT ![c] = <<>>]
    /\ resized_img' = [resized_img EXCEPT ![c] = <<>>]
    /\ optimized_path' = [optimized_path EXCEPT ![c] = NoPath]
    /\ result' = [result EXCEPT ![c] = NoPath]
    /\ log' = [log EXCEPT ![c] = <<>>]
    /\ ops' = [ops EXCEPT ![c] = NoOps]
    /\ wrote' = [wrote EXCEPT ![c] = {}]
    /\ orig' = [orig EXCEPT ![c] = fs]
    /\ lastWriter' = IF lastWriter = c THEN 0 ELSE lastWriter
    /\ save_args' = [save_args EXCEPT ![c] = NoArgs]
    /\ UNCHANGED <<fs, others>>

Step(c) ==
    \/ GetSize(c)
    \/ Open(c)
    \/ Resize(c)
    \/ Save(c)
    \/ GetSizeAfter(c)
    \/ Return(c)

\* the calls are issued one after another from a single control flow
Next ==
    \/ \E p \in DOMAIN fs \cup {MissingPath}, m \in Budgets :
          Call(Main, p, m)
    \/ Step(Main)

Spec == Init /\ [][Next]_vars

\* two calls on the files the run started from may overlap
ConcNext ==
    \/ \E c \in Procs, p \in DOMAIN fs \cap BasePaths, m \in Budgets :
          Call(c, p, m)
    \/ \E c \in Procs : Step(c)

ConcSpec == Init /\ [][ConcNext]_vars

\* the records of call c that reach a sink: the logger calls are made
\* whatever the sink, and none of them hands anything back to the call
Delivered(c) == IF sink = "accepted" THEN log[c] ELSE <<>>

\* the calls under each kind of sink
SinkInit ==
    /\ ImageInit(BasePaths, BaseFiles)
    /\ sink \in Sinks
    /\ HelperIdle
    /\ LoggerIdle
    /\ GuiIdle

SinkNext ==
    \/ \E p \in (DOMAIN fs \cap BasePaths) \cup {MissingPath}, m \in Budgets :
          Call(Main, p, m)
    \/ Step(Main)

SinkSpec == SinkInit /\ [][SinkNext]_vars

-----------------------------------------------------------------------------
(* The other helpers of image_util.py: process_image_file,                 *)
(* encode_image_to_base64, get_image_dimensions.  Each call is one step.   *)

\* the longest file content
MaxBytes == 3

\* the byte values file contents are made of
Bytes == {77, 97, 110, 255}

\* the byte strings of length n
BytesOfLen(n) == [1..n -> Bytes]

Contents == UNION {BytesOfLen(n) : n \in 0..MaxBytes}

\* a directory, and a file with its content and the size of the image it
\* holds (<<>> when the codec cannot open it)
DirEntry == [kind |-> "dir", bytes |-> <<>>, dims |-> <<>>]

FileEntry(b, d) == [kind |-> "file", bytes |-> b, dims |-> d]

SourcePaths == { <<"in", "/", "a", ".", "jpg">> }

\* a regular file where a caller may ask for a directory
TakenPath == <<"taken">>

OutputFolders == { <<"out", "/", "sub">>, TakenPath }

IsFile(p) == p \in DOMAIN store /\ store[p].kind = "file"

IsDir(p) == p \in DOMAIN store /\ store[p].kind = "dir"

\* os.path.basename
basename(p) == SubSeq(p, RFind(p, "/") + 1, Len(p))

\* os.path.join of two parts
join(a, b) ==
    IF Len(b) > 0 /\ b[1] = "/" THEN b
    ELSE IF a = <<>> \/ a[Len(a)] = "/" THEN a \o b
    ELSE a \o <<"/">> \o b

\* the directory d and the directories above it
Ancestors(d) ==
    {SubSeq(d, 1, i) : i \in {j \in 1..Len(d) : j = Len(d) \/ d[j + 1] = "/"}}
        \ {q \in {SubSeq(d, 1, i) : i \in 1..Len(d)} : q[Len(q)] = "/"}

\* os.makedirs(d, exist_ok=True) raises when d or a directory above it is
\* there as a regular file
MakedirsRaises(d) == \E q \in Ancestors(d) : IsFile(q)

\* the store after os.makedirs(d, exist_ok=True)
MakeDirs(d) ==
    [q \in DOMAIN store \cup Ancestors(d) |->
        IF q \in DOMAIN store THEN store[q] ELSE DirEntry]

\* how a call ended: outcome is "returned" or "raised"; read is the content
\* the call found in the file at image_path, <<>> when it read none
Ended(fn, p, folder, outcome, value, levels, rd) ==
    [fn |-> fn, image_path |-> p, output_folder |-> folder,
     outcome |-> outcome, value |-> value, log |-> levels, read |-> rd]

\* variant of CopyFailed: a failed copy is logged and raised again
CopyFailedReraises(p, folder) ==
    Ended("process_image_file", p, folder, "raised", NoneValue,
          <<"INFO", "DEBUG", "ERROR">>, <<>>)

\* the except clause of process_image_file: the error is logged and the
\* function runs off its end, which returns None
CopyFailed(p, folder) ==
    Ended("process_image_file", p, folder, "returned", NoneValue,
          <<"INFO", "DEBUG", "ERROR">>, <<>>)

\* variant of MakedirsFailed: the error is logged and None is returned,
\* as for a failed copy
MakedirsFailedReturnsNone(p, folder) ==
    Ended("process_image_file", p, folder, "returned", NoneValue,
          <<"INFO", "ERROR">>, <<>>)

\* os.makedirs at line 29 raises: the call is outside the try, so the
\* exception leaves process_image_file with the first INFO record sent
MakedirsFailed(p, folder) ==
    Ended("process_image_file", p, folder, "raised", NoneValue,
          <<"INFO">>, <<>>)

\* process_image_file(p, folder); io_fails: the copy hits an I/O error
ProcessImageFile(p, folder, io_fails) ==
    LET output_path == join(folder, basename(p))
    IN  IF MakedirsRaises(folder)
        THEN /\ helper' = MakedirsFailed(p, folder)
             /\ UNCHANGED store
        ELSE IF io_fails \/ ~IsFile(p) \/ output_path = p
                         \/ IsDir(output_path)
        THEN /\ helper' = CopyFailed(p, folder)
             /\ store' = MakeDirs(folder)
        ELSE /\ helper' = Ended("process_image_file", p, folder, "returned",
                                ListValue(<<output_path>>),
                                <<"INFO", "DEBUG", "INFO">>, store[p].bytes)
             /\ store' = [q \in DOMAIN MakeDirs(folder) \cup {output_path} |->
                             IF q = output_path THEN store[p]
                             ELSE MakeDirs(folder)[q]]

\* the base64 alphabet
Alphabet ==
    << "A", "B", "C", "D", "E", "F", "G", "H", "I", "J", "K", "L", "M",
       "N", "O", "P", "Q", "R", "S", "T", "U", "V", "W", "X", "Y", "Z",
       "a", "b", "c", "d", "e", "f", "g", "h", "i", "j", "k", "l", "m",
       "n", "o", "p", "q", "r", "s", "t", "u", "v", "w", "x", "y", "z",
       "0", "1", "2", "3", "4", "5", "6", "7", "8", "9", "+", "/" >>

\* variant of b64encode: a last group of one or two bytes is left out
RECURSIVE b64encodeWholeGroups(_)
b64encodeWholeGroups(b) ==
    IF Len(b) < 3 THEN <<>>
    ELSE << Alphabet[(b[1] \div 4) + 1],
            Alphabet[((b[1] % 4) * 16 + (b[2] \div 16)) + 1],
            Alphabet[((b[2] % 16) * 4 + (b[3] \div 64)) + 1],
            Alphabet[(b[3] % 64) + 1] >>
         \o b64encodeWholeGroups(SubSeq(b, 4, Len(b)))

\* base64.b64encode(...).decode('utf-8'): three bytes give four characters,
\* a last group of one or two bytes is padded with "="
RECURSIVE b64encode(_)
b64encode(b) ==
    IF Len(b) = 0 THEN <<>>
    ELSE IF Len(b) = 1
    THEN << Alphabet[(b[1] \div 4) + 1],
            Alphabet[((b[1] % 4) * 16) + 1], "=", "=" >>
    ELSE IF Len(b) = 2
    THEN << Alphabet[(b[1] \div 4) + 1],
            Alphabet[((b[1] % 4) * 16 + (b[2] \div 16)) + 1],
            Alphabet[((b[2] % 16) * 4) + 1], "=" >>
    ELSE << Alphabet[(b[1] \div 4) + 1],
            Alphabet[((b[1] % 4) * 16 + (b[2] \div 16)) + 1],
            Alphabet[((b[2] % 16) * 4 + (b[3] \div 64)) + 1],
            Alphabet[(b[3] % 64) + 1] >>
         \o b64encode(SubSeq(b, 4, Len(b)))

\* encode_image_to_base64(p): a failed open or read is logged and raised
EncodeImageToBase64(p) ==
    /\ helper' =
          IF IsFile(p)
          THEN Ended("encode_image_to_base64", p, NoPath, "returned",
                     StrValue(b64encode(store[p].bytes)),
                     <<"DEBUG", "DEBUG">>, store[p].bytes)
          ELSE Ended("encode_image_to_base64", p, NoPath, "raised",
                     NoneValue, <<"DEBUG", "ERROR">>, <<>>)
    /\ UNCHANGED store

\* get_image_dimensions(p): a failed Image.open is logged and raised
GetImageDimensions(p) ==
    /\ helper' =
          IF IsFile(p) /\ store[p].dims # <<>>
          THEN Ended("get_image_dimensions", p, NoPath, "returned",
                     TupleValue(store[p].dims),
                     <<"DEBUG", "DEBUG">>, store[p].bytes)
          ELSE Ended("get_image_dimensions", p, NoPath, "raised",
                     NoneValue, <<"DEBUG", "ERROR">>, <<>>)
    /\ UNCHANGED store

\* the variables of optimize_image_for_api
imageVars == <<fs, pc, image_path, max_size_mb, fault, file_size, img,
               new_size, resized_img, optimized_path, result, log, ops,
               wrote, orig, lastWriter, save_args>>

\* one source file, and one regular file at the path named taken
HelperInit ==
    /\ ImageInit({<<"a", ".", "JPG">>}, {File(2 * MiB, 1000, 800, "ok", Source)})
    /\ sink = "accepted"
    /\ helper = NoCall
    /\ LoggerIdle
    /\ GuiIdle
    /\ \E p \in SourcePaths, b \in Contents, d \in {<<>>, <<2, 3>>} :
          store = (p :> FileEntry(b, d)) @@ (TakenPath :> FileEntry(<<>>, <<>>))

\* the paths a caller may pass: what is stored, and a path that is not
HelperArgs == DOMAIN store \cup {MissingPath}

HelperNext ==
    \/ \E p \in HelperArgs, folder \in OutputFolders, io_fails \in BOOLEAN :
          ProcessImageFile(p, folder, io_fails) /\ UNCHANGED <<imageVars, sink, lg, gui, disk>>
    \/ \E p \in HelperArgs :
          EncodeImageToBase64(p) /\ UNCHANGED <<imageVars, sink, lg, gui, disk>>
    \/ \E p \in HelperArgs :
          GetImageDimensions(p) /\ UNCHANGED <<imageVars, sink, lg, gui, disk>>

HelperSpec == HelperInit /\ [][HelperNext]_vars

\* optimize_image_for_api and the other helpers called from one control
\* flow: a helper is called while no call of optimize_image_for_api is
\* between its first and its last statement
Quiescent == pc[Main] \in {"idle", "done", "raised"}

\* an image over the budget, readable or not, and a store with one source
\* file, an image or not, and a regular file at the path named taken
ConventionInit ==
    /\ ImageInit({<<"a", ".", "JPG">>},
                 {File(6 * MiB, 1000, 800, "ok", Source),
                  File(6 * MiB, 1000, 800, "badheader", Source)})
    /\ sink = "accepted"
    /\ helper = NoCall
    /\ LoggerIdle
    /\ GuiIdle
    /\ \E p \in SourcePaths, d \in {<<>>, <<2, 3>>} :
          store = (p :> FileEntry(<<77>>, d)) @@ (TakenPath :> FileEntry(<<>>, <<>>))

ConventionNext ==
    \/ \E p \in (DOMAIN fs \cap BasePaths) \cup {MissingPath}, m \in Budgets :
          Call(Main, p, m)
    \/ Step(Main)
    \/ Quiescent /\ HelperNext

ConventionSpec == ConventionInit /\ [][ConventionNext]_vars

-----------------------------------------------------------------------------
(* The import of utils/logger_util.py: the module-level statements that     *)
(* set the handlers of the logger up.  Each statement is a step; a step    *)
(* that touches the file system or adds a handler may raise.               *)

\* the three file sinks, in the order lines 61-98 add them
FileSinks == {"debug.log", "info.log", "error.log"}

\* the handlers whose level lets an INFO record through
TakesInfo == {"default", "console", "debug.log", "info.log"}

\* a one-file image store for the runs that are not about images
QuietImage ==
    ImageInit({<<"a", ".", "JPG">>}, {File(2 * MiB, 1000, 800, "ok", Source)})

\* everything but the state of the import
notLogger == <<imageVars, sink, store, helper, gui, disk>>

\* the interpreter starts to execute the module, frozen into an executable
\* or not, with or without a logs directory left by an earlier run
LoggerInit ==
    /\ QuietImage
    /\ sink = "accepted"
    /\ HelperIdle
    /\ GuiIdle
    /\ \E f \in BOOLEAN, d \in BOOLEAN :
          lg = [NotImported EXCEPT !.pc = "remove", !.frozen = f,
                                   !.logs_dir = d]

\* line 8: logger.remove() takes every handler away, the default one too
LoggerRemove ==
    /\ lg.pc = "remove"
    /\ lg' = [lg EXCEPT !.pc = "console", !.handlers = {}]
    /\ UNCHANGED notLogger

\* lines 11-14: the console handler; a failure of logger.add (sys.stdout
\* is None in a windowed executable) is printed and swallowed
LoggerAddConsole ==
    /\ lg.pc = "console"
    /\ \E ok \in BOOLEAN :
          lg' = IF ok
                THEN [lg EXCEPT !.pc = "exe_dir",
                                !.handlers = @ \cup {"console"}]
                ELSE [lg EXCEPT !.pc = "exe_dir",
                                !.printed = @ \cup {"Error adding stderr logger"}]
    /\ UNCHANGED notLogger

\* lines 17-36 and 40-41: get_executable_directory(); an error inside it
\* is printed and the working directory is used
LoggerExeDir ==
    /\ lg.pc = "exe_dir"
    /\ \E ok \in BOOLEAN :
          lg' = IF ok
                THEN [lg EXCEPT !.pc = "mkdir",
                                !.exe_dir = IF lg.frozen THEN "executable_parent"
                                            ELSE "source_parent"]
                ELSE [lg EXCEPT !.pc = "mkdir", !.exe_dir = "cwd",
                                !.printed = @ \cup
                                    {"Error determining executable directory"}]
    /\ UNCHANGED notLogger

\* the state after the statement named step has raised inside the inner
\* try: lines 55-58 print and raise again, to the outer except
InnerRaise(step) ==
    [lg EXCEPT !.pc = "except", !.failed = step,
               !.printed = @ \cup {"Error creating or writing to logs directory"}]

\* lines 45-47: the logs directory is made when it is not there
LoggerMkdir ==
    /\ lg.pc = "mkdir"
    /\ IF lg.logs_dir
       THEN lg' = [lg EXCEPT !.pc = "write_test"]
       ELSE \E ok \in BOOLEAN :
               lg' = IF ok
                     THEN [lg EXCEPT !.pc = "write_test", !.logs_dir = TRUE,
                                     !.printed = @ \cup {"Creating logs directory"}]
                     ELSE [InnerRaise("mkdir") EXCEPT
                              !.printed = @ \cup {"Creating logs directory"}]
    /\ UNCHANGED notLogger

\* lines 50-54: test_write.tmp is written and removed; the write may
\* raise, and so may the unlink, which leaves the file
LoggerWriteTest ==
    /\ lg.pc = "write_test"
    /\ \E outcome \in {"ok", "write_raises", "unlink_raises"} :
          lg' = CASE outcome = "ok" ->
                       [lg EXCEPT !.pc = "add_debug",
                                  !.printed = @ \cup
                                      {"Successfully verified write access"}]
                  [] outcome = "write_raises" -> InnerRaise("write_test")
                  [] outcome = "unlink_raises" ->
                       [InnerRaise("write_test") EXCEPT !.test_file = TRUE]
    /\ UNCHANGED notLogger

\* one logger.add of a file sink (lines 61-72, 74-85, 87-98): the sink
\* opens its file at once, so the call registers the handler or raises,
\* and a raise goes straight to the outer except
LoggerAddFile(at, name, next) ==
    /\ lg.pc = at
    /\ \E ok \in BOOLEAN :
          lg' = IF ok
                THEN [lg EXCEPT !.pc = next, !.handlers = @ \cup {name}]
                ELSE [lg EXCEPT !.pc = "except", !.failed = name]
    /\ UNCHANGED notLogger

LoggerAddDebug == LoggerAddFile("add_debug", "debug.log", "add_info")

LoggerAddInfo == LoggerAddFile("add_info", "info.log", "add_error")

LoggerAddError == LoggerAddFile("add_error", "error.log", "log_init")

\* lines 101-104: the INFO records of a finished setup go to every handler
\* whose level admits them
LoggerLogInit ==
    /\ lg.pc = "log_init"
    /\ lg' = [lg EXCEPT !.pc = "done",
                        !.printed = @ \cup {"Logger initialized"},
                        !.received = lg.handlers \cap TakesInfo]
    /\ UNCHANGED notLogger

\* lines 106-110: the outer except prints and removes nothing
LoggerExcept ==
    /\ lg.pc = "except"
    /\ lg' = [lg EXCEPT !.pc = "done",
                        !.printed = @ \cup {"CRITICAL ERROR in logger initialization",
                                            "Continuing with console logging only"}]
    /\ UNCHANGED notLogger

LoggerNext ==
    \/ LoggerRemove
    \/ LoggerAddConsole
    \/ LoggerExeDir
    \/ LoggerMkdir
    \/ LoggerWriteTest
    \/ LoggerAddDebug
    \/ LoggerAddInfo
    \/ LoggerAddError
    \/ LoggerLogInit
    \/ LoggerExcept

LoggerSpec == LoggerInit /\ [][LoggerNext]_vars

-----------------------------------------------------------------------------
(* The file-selection window of gui/file_selection_ui.py (and its copy,    *)
(* simple-file-selection-ui.py): two radio buttons in an exclusive button  *)
(* group, a read-only path field and a browse button for each mode, and    *)
(* the Process button.  Each user event runs its handler to the end; a     *)
(* message box is modal, so no other event of the window is handled while  *)
(* one is open.  The files on disk may go away at any moment.              *)

\* what the file dialog can hand back: existing files, existing directories
FilePicks == { <<"d", "/", "f1">>, <<"d", "/", "f2">> }

DirPicks == { <<"d", "/", "sub">> }

\* a cancelled dialog hands back the empty string
Cancelled == << >>

\* UI["WINDOW_TITLE"]
WindowTitle == <<"WINDOW_TITLE">>

\* what the user sees of the mode: the two groups and the Process button
View(g) ==
    [file_group |-> g.file_group, dir_group |-> g.dir_group,
     process_button |-> g.process_button]

\* the window after __init__: file mode, the directory group hidden, the
\* Process button disabled, both path fields empty
WindowShown ==
    [open |-> TRUE, file_radio |-> TRUE,
     file_group |-> TRUE, dir_group |-> FALSE,
     file_path_display |-> <<>>, dir_path_display |-> <<>>,
     process_button |-> FALSE, window_title |-> WindowTitle,
     dialog |-> "none", dialog_path |-> <<>>, dialog_existed |-> FALSE,
     hist |-> <<>>]

\* everything but the window and the disk
notGui == <<imageVars, sink, store, helper, lg>>

GuiInit ==
    /\ QuietImage
    /\ sink = "accepted"
    /\ HelperIdle
    /\ LoggerIdle
    /\ gui = WindowShown
    /\ disk = FilePicks \cup DirPicks

\* the window g after the event e, remembered with the view before it;
\* the last two events are kept
After(g, e) ==
    [g EXCEPT !.hist = <<[event |-> e, view |-> View(gui)]>>
                          \o SubSeq(gui.hist, 1, IF gui.hist = <<>> THEN 0 ELSE 1)]

\* get_selected_path: the text of the field of the checked radio button
get_selected_path(g) ==
    IF g.file_radio THEN g.file_path_display ELSE g.dir_path_display

\* variant of GroupsAfterUpdate: the group of the checked button is shown
\* and the other one is left as it is
GroupsAfterUpdateShowOnly(g) ==
    [file |-> g.file_group \/ g.file_radio, dir |-> g.dir_group \/ ~g.file_radio]

\* the setVisible calls of update_ui_for_selection_type
GroupsAfterUpdate(g) ==
    IF g.file_radio THEN [file |-> TRUE, dir |-> FALSE]
    ELSE [file |-> FALSE, dir |-> TRUE]

\* variant of EnabledAfterUpdate: the Process button is left as it is
EnabledAfterUpdateKept(g) == g.process_button

\* the setEnabled call of update_ui_for_selection_type: bool(text)
EnabledAfterUpdate(g) ==
    IF g.file_radio THEN g.file_path_display # <<>>
    ELSE g.dir_path_display # <<>>

update_ui_for_selection_type(g) ==
    [g EXCEPT !.file_group = GroupsAfterUpdate(g).file,
              !.dir_group = GroupsAfterUpdate(g).dir,
              !.process_button = EnabledAfterUpdate(g)]

\* a click on a radio button: the button group checks it and unchecks the
\* other one, then buttonClicked runs update_ui_for_selection_type
ClickRadio(toFile) ==
    /\ gui.dialog = "none"
    /\ gui' = After(update_ui_for_selection_type(
                        [gui EXCEPT !.file_radio = toFile]),
                    IF toFile = gui.file_radio THEN "radio_same"
                    ELSE "radio_switch")
    /\ UNCHANGED <<disk, notGui>>

\* variant of BrowseResult: the result of the dialog is taken as it is
BrowseResultAlwaysSet(g, field, choice, mark) ==
    [g EXCEPT ![field] = choice,
              !.process_button = TRUE,
              !.window_title = WindowTitle \o <<" - ">> \o basename(choice)
                                 \o mark]

\* the if of browse_for_file / browse_for_directory: a non-empty result
\* is put into the field, enables the Process button and goes into the
\* window title; an empty one does nothing
BrowseResult(g, field, choice, mark) ==
    IF choice = Cancelled THEN g
    ELSE [g EXCEPT ![field] = choice,
                   !.process_button = TRUE,
                   !.window_title = WindowTitle \o <<" - ">> \o basename(choice)
                                      \o mark]

\* a click on the browse button of the file group
browse_for_file(choice) ==
    /\ gui.dialog = "none"
    /\ gui.file_group
    /\ gui' = After(BrowseResult(gui, "file_path_display", choice, <<>>),
                    IF choice = Cancelled THEN "browse_cancel"
                    ELSE "browse_accept")
    /\ UNCHANGED <<disk, notGui>>

\* a click on the browse button of the directory group
browse_for_directory(choice) ==
    /\ gui.dialog = "none"
    /\ gui.dir_group
    /\ gui' = After(BrowseResult(gui, "dir_path_display", choice, <<"/">>),
                    IF choice = Cancelled THEN "browse_cancel"
                    ELSE "browse_accept")
    /\ UNCHANGED <<disk, notGui>>

\* variant of PathAccepted: the path is only tested for being non-empty
PathAcceptedNonEmpty(path) == path # <<>>

\* the test of process_clicked: not (not path or not os.path.exists(path))
PathAccepted(path) == path # <<>> /\ path \in disk

\* a click on the Process button, which takes clicks only while enabled
process_clicked ==
    /\ gui.dialog = "none"
    /\ gui.process_button
    /\ LET path == get_selected_path(gui)
       IN  gui' = After([gui EXCEPT
                            !.dialog = IF PathAccepted(path) THEN "information"
                                       ELSE "critical",
                            !.dialog_path = path,
                            !.dialog_existed = path \in disk],
                        "process")
    /\ UNCHANGED <<disk, notGui>>

\* the user closes the message box
DismissDialog ==
    /\ gui.dialog # "none"
    /\ gui' = After([gui EXCEPT !.dialog = "none"], "dismiss")
    /\ UNCHANGED <<disk, notGui>>

\* something outside the program removes a file or a directory
RemoveFromDisk(p) ==
    /\ p \in disk
    /\ disk' = disk \ {p}
    /\ UNCHANGED <<gui, notGui>>

GuiNext ==
    \/ \E toFile \in BOOLEAN : ClickRadio(toFile)
    \/ \E choice \in {Cancelled} \cup (FilePicks \cap disk) :
          browse_for_file(choice)
    \/ \E choice \in {Cancelled} \cup (DirPicks \cap disk) :
          browse_for_directory(choice)
    \/ process_clicked
    \/ DismissDialog
    \/ \E p \in disk : RemoveFromDisk(p)

GuiSpec == GuiInit /\ [][GuiNext]_vars

-----------------------------------------------------------------------------
(* Properties *)

Done(c) == pc[c] = "done"

\* the file call c found at its input path, when there was one
Found(c) == orig[c][image_path[c]]

InputExisted(c) == image_path[c] \in DOMAIN orig[c]

\* the input of call c was over its budget
OverBudget(c) == InputExisted(c) /\ Found(c).size > max_size_mb[c] * MiB

\* C1: a call on an existing file whose size is at most max_size_mb MiB,
\* the limit itself included, returns its input path, makes no decode,
\* resize or encode and leaves the file system as it found it.
C1_FastPath ==
    \A c \in Procs :
        Done(c) /\ InputExisted(c)
                /\ Found(c).size <= max_size_mb[c] * MiB
        => /\ result[c] = image_path[c]
           /\ ops[c] = NoOps
           /\ wrote[c] = {}
           /\ fs = orig[c]

\* a call on a file exactly at the limit has returned the input path
C1_Witness ==
    \E c \in Procs :
        /\ Done(c) /\ InputExisted(c)
        /\ Found(c).size = max_size_mb[c] * MiB
        /\ result[c] = image_path[c]
        /\ ops[c] = NoOps

\* n = floor(dim * sqrt(mb MiB / bytes)), stated on the squares
IsFloorOfScaled(n, dim, mb, bytes) ==
    LET g == GCD(mb * MiB, bytes)
    IN  /\ n * n * (bytes \div g) <= dim * dim * ((mb * MiB) \div g)
        /\ (n + 1) * (n + 1) * (bytes \div g) > dim * dim * ((mb * MiB) \div g)

\* q is p with the suffix token inserted in front of p's final ".ext"
IsDerivedFrom(q, p) ==
    /\ Len(p) >= 3
    /\ p[Len(p) - 1] = "."
    /\ p[Len(p)] \notin {".", "/"}
    /\ q = SubSeq(p, 1, Len(p) - 2) \o <<"_optimized">>
              \o SubSeq(p, Len(p) - 1, Len(p))

\* the decode, the resize and the encode of call c all succeeded
AllSucceeded(c) == ops[c].encode = 1 /\ fault[c] = "none"

\* C2: a call on a file over the budget whose decode, resize and encode
\* succeed returns a path other than its input, <stem>_optimized<ext> in
\* the same directory, and the file there is floor(width * s) by
\* floor(height * s) for s = sqrt(max_size_mb / current size in MB); a
\* 6 MiB 1000x800 image under a budget of 4 comes out at 816x653.
C2_ResizedOutput ==
    \A c \in Procs :
        Done(c) /\ OverBudget(c) /\ AllSucceeded(c)
        => /\ result[c] # image_path[c]
           /\ IsDerivedFrom(result[c], image_path[c])
           /\ DirName(result[c]) = DirName(image_path[c])
           /\ result[c] \in DOMAIN fs
           /\ IsFloorOfScaled(fs[result[c]].width, Found(c).width,
                              max_size_mb[c], Found(c).size)
           /\ IsFloorOfScaled(fs[result[c]].height, Found(c).height,
                              max_size_mb[c], Found(c).size)
           /\ (/\ Found(c).size = 6 * MiB /\ max_size_mb[c] = 4
               /\ Found(c).width = 1000 /\ Found(c).height = 800)
              => fs[result[c]].width = 816 /\ fs[result[c]].height = 653

\* the 6 MiB 1000x800 image in a directory has been resized to 816x653
C2_Witness ==
    \E c \in Procs :
        /\ Done(c) /\ OverBudget(c) /\ AllSucceeded(c)
        /\ Found(c).size = 6 * MiB /\ max_size_mb[c] = 4
        /\ image_path[c] = <<"d", "/", "a", ".", "jpg">>
        /\ result[c] = <<"d", "/", "a", "_optimized", ".", "jpg">>
        /\ fs[result[c]].width = 816 /\ fs[result[c]].height = 653

\* the decode, the resize or the encode of call c raised
StepFailed(c) == fault[c] \in {"decode", "resize", "encode", "encode_partial"}

\* C3: when the image is over the budget and the decode, the resize or the
\* encode fails, the call returns its input path, has sent an error-level
\* record to the logger, and no exception leaves the call.
C3_FailureFallsBack ==
    \A c \in Procs :
        OverBudget(c) /\ StepFailed(c)
        => /\ pc[c] = "done"
           /\ result[c] = image_path[c]
           /\ \E i \in 1..Len(log[c]) : log[c][i] = "ERROR"

\* a call whose encode failed has returned its input path
C3_Witness ==
    \E c \in Procs :
        /\ Done(c) /\ OverBudget(c)
        /\ fault[c] \in {"encode", "encode_partial"}
        /\ result[c] = image_path[c]

\* C4: every failure of the operation, that of the first size query
\* included, is turned into a return of the input path: no call ends with
\* an exception reaching its caller.
C4_NoExceptionEscapes ==
    \A c \in Procs : pc[c] # "raised"

\* C5: on every branch the path a call returns names a file that exists
\* when the call returns.
C5_ReturnedPathExists ==
    \A c \in Procs : Done(c) => result[c] \in DOMAIN fs

\* a call has returned the path of a file it created
C5_Witness ==
    \E c \in Procs :
        /\ Done(c)
        /\ result[c] # image_path[c]
        /\ result[c] \in DOMAIN fs
        /\ result[c] \notin DOMAIN orig[c]

\* C6: a call never changes or deletes the file at its input path, deletes
\* no file, and the only path it can write is <stem>_optimized<ext>, which
\* is never the input path.
C6_InputUntouched ==
    \A c \in Procs :
        pc[c] # "idle"
        => /\ OptimizedPath(image_path[c]) # image_path[c]
           /\ DOMAIN orig[c] \subseteq DOMAIN fs
           /\ InputExisted(c) => fs[image_path[c]] = Found(c)
           /\ \A q \in DOMAIN fs :
                 (q \notin DOMAIN orig[c] \/ fs[q] # orig[c][q])
                 => q = OptimizedPath(image_path[c])
           /\ \A w \in wrote[c] : w.path = OptimizedPath(image_path[c])

\* a call has written its output and its input is as it was
C6_Witness ==
    \E c \in Procs :
        /\ Done(c) /\ InputExisted(c)
        /\ wrote[c] # {}
        /\ fs # orig[c]
        /\ fs[image_path[c]] = Found(c)

\* C7: a call on an over-budget input whose output path is already taken
\* does not fail for that reason: when nothing else goes wrong it
\* overwrites the file there and returns that path, which depends on the
\* input path alone.
C7_RepeatOverwrites ==
    \A c \in Procs :
        /\ Done(c) /\ OverBudget(c)
        /\ OptimizedPath(image_path[c]) \in DOMAIN orig[c]
        /\ AllSucceeded(c)
        => /\ result[c] = OptimizedPath(image_path[c])
           /\ [path |-> result[c], file |-> fs[result[c]]] \in wrote[c]

\* a second call on the same input has replaced the output of the first
C7_Witness ==
    \E c \in Procs :
        /\ Done(c) /\ OverBudget(c)
        /\ OptimizedPath(image_path[c]) \in DOMAIN orig[c]
        /\ orig[c][OptimizedPath(image_path[c])].kind = "ok"
        /\ result[c] = OptimizedPath(image_path[c])
        /\ fs[result[c]] # orig[c][result[c]]

\* the input path of call c is <stem>_optimized<ext>
InputIsOutput(c) ==
    LET p == image_path[c]
    IN  /\ Len(p) >= 4
        /\ p[Len(p) - 2] = "_optimized"
        /\ p[Len(p) - 1] = "."

\* C8: the operation is not idempotent on its own output: called on
\* <stem>_optimized<ext>, it returns its argument when that file is within
\* the budget, and when the file is still over the budget it resizes again
\* and returns <stem>_optimized_optimized<ext> (its argument only when a
\* step of this second pass fails).
C8_NotIdempotentOnOutput ==
    \A c \in Procs :
        Done(c) /\ InputExisted(c) /\ InputIsOutput(c)
        => IF Found(c).size <= max_size_mb[c] * MiB
           THEN result[c] = image_path[c]
           ELSE LET p == image_path[c]
                    q == SubSeq(p, 1, Len(p) - 2) \o <<"_optimized">>
                           \o SubSeq(p, Len(p) - 1, Len(p))
                IN  /\ ops[c].decode = 1
                    /\ result[c] \in {p, q}
                    /\ result[c] = p <=> fault[c] # "none"
                    /\ result[c] = q
                          => /\ ops[c] = [decode |-> 1, resize |-> 1, encode |-> 1]
                             /\ [path |-> q, file |-> fs[q]] \in wrote[c]

\* a call on an output still over the budget has returned a path with the
\* suffix twice
C8_Witness ==
    \E c \in Procs :
        /\ Done(c) /\ InputIsOutput(c)
        /\ Found(c).size > max_size_mb[c] * MiB
        /\ result[c] = <<"a", "_optimized", "_optimized", ".", "JPG">>

\* C9: two overlapping calls on the same over-budget input are not kept
\* apart: both can be past their save of the same output path at once, and
\* the file left there is the one whose save finished last.
C9_LastWriterWins ==
    \A c, d \in Procs :
        /\ c # d
        /\ image_path[c] = image_path[d]
        /\ wrote[c] # {} /\ wrote[d] # {}
        /\ lastWriter = c
        => \A w \in wrote[c] : w.path \in DOMAIN fs /\ fs[w.path] = w.file

\* both calls have saved different files to the same path and neither has
\* returned; the file of the later save is the one there
C9_Witness ==
    \E c, d \in Procs :
        /\ c # d
        /\ image_path[c] = image_path[d]
        /\ pc[c] = "getsize2" /\ pc[d] = "getsize2"
        /\ optimized_path[c] = optimized_path[d]
        /\ lastWriter = c
        /\ \E w \in wrote[c] : fs[w.path] = w.file /\ w \notin wrote[d]

\* the position of a statement in the body of the function
Rank(l) ==
    CASE l = "getsize"  -> 1
      [] l = "open"     -> 2
      [] l = "resize"   -> 3
      [] l = "save"     -> 4
      [] l = "getsize2" -> 5
      [] OTHER          -> 6

\* C10: a call makes at most one decode, one resize and one encode and only
\* moves forward through its statements; the size of the file it wrote is
\* not compared with the budget: once that file is there, the call returns
\* its path whatever its size.
C10_SinglePass ==
    [][\A c \in Procs :
          /\ ops'[c].decode <= 1 /\ ops'[c].resize <= 1 /\ ops'[c].encode <= 1
          /\ pc[c] \notin {"idle", "done", "raised"} /\ pc'[c] # pc[c]
                => Rank(pc'[c]) > Rank(pc[c])
          /\ pc[c] = "getsize2" /\ pc'[c] # pc[c] /\ Exists(optimized_path[c])
                => pc'[c] = "done" /\ result'[c] = optimized_path[c]]_vars

\* a call has returned the path of a file that is still over its budget
C10_Witness ==
    \E c \in Procs :
        /\ Done(c)
        /\ result[c] = optimized_path[c]
        /\ fs[result[c]].size > max_size_mb[c] * MiB
        /\ ops[c] = [decode |-> 1, resize |-> 1, encode |-> 1]

\* the extension of p is .jpg or .jpeg in any case
HasJpegExtension(p) ==
    /\ Len(p) >= 3
    /\ p[Len(p) - 1] = "."
    /\ p[Len(p) - 2] \notin {".", "/"}
    /\ p[Len(p)] \in {"jpg", "JPG", "jpeg", "JPEG"}

\* C11: in the resize branch the encoder options depend on the extension
\* of the input path alone, compared without regard to case: .jpg and
\* .jpeg give quality 85 with optimize, every other extension, the empty
\* one included, gives optimize and no quality.
C11_EncoderOptions ==
    \A c \in Procs :
        ops[c].encode = 1
        => save_args[c] = IF HasJpegExtension(image_path[c])
                          THEN [quality |-> 85, optimize |-> TRUE]
                          ELSE [optimize |-> TRUE]

\* an upper-case .JPG input has been saved at quality 85
C11_Witness ==
    \E c \in Procs :
        /\ ops[c].encode = 1
        /\ image_path[c][Len(image_path[c])] = "JPG"
        /\ save_args[c] = [quality |-> 85, optimize |-> TRUE]
        /\ wrote[c] # {}

\* C14: the sink does not change what a call does: under every kind of
\* sink the way the call ends, the path it returns and the writes it makes
\* are given by the input file, the budget, the file system and the
\* outcome of the save alone, and records are delivered only to a sink
\* that takes them.
C14_SinkIndependent ==
    /\ sink \in Sinks
    /\ \A c \in Procs :
          /\ pc[c] = "raised" => ~InputExisted(c)
          /\ Done(c) =>
                /\ InputExisted(c)
                /\ result[c] = IF OverBudget(c) /\ fault[c] = "none"
                                THEN OptimizedPath(image_path[c])
                                ELSE image_path[c]
                /\ wrote[c] # {}
                      <=> OverBudget(c) /\ fault[c] \in {"none", "encode_partial"}
                /\ \A q \in DOMAIN fs :
                      (q \notin DOMAIN orig[c] \/ fs[q] # orig[c][q])
                      => \E w \in wrote[c] : w.path = q /\ w.file = fs[q]
          /\ sink # "accepted" => Delivered(c) = <<>>
          /\ sink = "accepted" => Delivered(c) = log[c]

\* with no sink at all a call has failed to decode and fallen back
C14_Witness ==
    \E c \in Procs :
        /\ sink = "absent"
        /\ Done(c) /\ OverBudget(c)
        /\ fault[c] = "decode"
        /\ result[c] = image_path[c]
        /\ Delivered(c) = <<>>
        /\ Len(log[c]) > 0

\* the last helper call was one of fn
Called(fn) == helper.fn = fn

\* the output folder of the last call, or a directory above it, is taken
\* by a regular file
FolderBlocked ==
    \E i \in 1..Len(helper.output_folder) :
        /\ i = Len(helper.output_folder) \/ helper.output_folder[i + 1] = "/"
        /\ SubSeq(helper.output_folder, 1, i) \in DOMAIN store
        /\ store[SubSeq(helper.output_folder, 1, i)].kind = "file"

\* output_folder joined with the last component of image_path
ExpectedCopyPath ==
    helper.output_folder \o <<"/">>
        \o SubSeq(helper.image_path, RFind(helper.image_path, "/") + 1,
                  Len(helper.image_path))

B64Index(ch) == (CHOOSE i \in 1..64 : Alphabet[i] = ch) - 1

\* the bytes a base64 string stands for
RECURSIVE B64Decode(_)
B64Decode(t) ==
    IF Len(t) < 4 THEN <<>>
    ELSE LET first == B64Index(t[1]) * 4 + (B64Index(t[2]) \div 16)
         IN  IF t[3] = "=" THEN <<first>>
             ELSE LET second == (B64Index(t[2]) % 16) * 16
                                  + (B64Index(t[3]) \div 4)
                  IN  IF t[4] = "=" THEN <<first, second>>
                      ELSE <<first, second,
                             (B64Index(t[3]) % 4) * 64 + B64Index(t[4])>>
                           \o B64Decode(SubSeq(t, 5, Len(t)))

\* C13: for every readable file encode_image_to_base64 returns a string
\* that decodes to the bytes of the file exactly, and that is the standard
\* base64 text of those bytes ("Man" gives "TWFu", "Ma" gives "TWE=",
\* "M" gives "TQ==").
C13_Base64RoundTrip ==
    Called("encode_image_to_base64") /\ IsFile(helper.image_path) =>
        /\ helper.outcome = "returned"
        /\ helper.value.type = "str"
        /\ B64Decode(helper.value.chars) = store[helper.image_path].bytes
        /\ Len(helper.value.chars)
              = 4 * ((Len(store[helper.image_path].bytes) + 2) \div 3)
        /\ store[helper.image_path].bytes = <<77, 97, 110>>
              => helper.value.chars = <<"T", "W", "F", "u">>
        /\ store[helper.image_path].bytes = <<77, 97>>
              => helper.value.chars = <<"T", "W", "E", "=">>
        /\ store[helper.image_path].bytes = <<77>>
              => helper.value.chars = <<"T", "Q", "=", "=">>
        /\ store[helper.image_path].bytes = <<255, 255, 255>>
              => helper.value.chars = <<"/", "/", "/", "/">>

\* a two-byte file has been encoded with one character of padding
C13_Witness ==
    /\ Called("encode_image_to_base64")
    /\ helper.outcome = "returned"
    /\ helper.read = <<77, 97>>
    /\ helper.value = StrValue(<<"T", "W", "E", "=">>)

\* C20: whenever a call returns its input path, by the fast path or by the
\* fallback, it has left the file system as it found it.
C20_InputReturnedMeansUntouched ==
    \A c \in Procs :
        Done(c) /\ result[c] = image_path[c] => fs = orig[c]

\* the import of logger_util has run to its end
Imported == lg.pc = "done"

\* C15: when a step of the file-logging setup fails, the import ends with
\* console logging only: the console handler is registered and no file
\* sink is active.
C15_ConsoleOnlyAfterFailure ==
    Imported /\ lg.failed # "none" =>
        /\ "console" \in lg.handlers
        /\ lg.handlers \cap FileSinks = {}

\* C16: exactly one of the file group and the directory group is visible,
\* and it is the group of the checked radio button, whatever the clicks,
\* the browse dialogs and the Process clicks that came before.
C16_OneGroupVisible ==
    /\ gui.file_group # gui.dir_group
    /\ gui.file_group = gui.file_radio

\* directory mode after a switch: the directory group alone is visible
C16_Witness ==
    /\ gui.hist # <<>>
    /\ gui.hist[1].event = "radio_switch"
    /\ ~gui.file_radio
    /\ gui.dir_group
    /\ ~gui.file_group

\* C17: the Process button is enabled exactly when the path field of the
\* checked mode is not empty.
C17_ProcessEnabledIffPath ==
    gui.process_button
        <=> (IF gui.file_radio THEN gui.file_path_display
             ELSE gui.dir_path_display) # <<>>

\* a file was chosen, then the user switched to directory mode, where
\* nothing is chosen: the button is disabled again
C17_Witness ==
    /\ ~gui.file_radio
    /\ gui.file_path_display # <<>>
    /\ gui.dir_path_display = <<>>
    /\ ~gui.process_button

\* C18: the confirmation is shown only for a path that is not empty and
\* exists when Process is clicked, the error dialog otherwise; a click
\* always shows one of them, and never for an empty path.
C18_ConfirmOnlyExistingPath ==
    /\ gui.dialog = "information" =>
          gui.dialog_path # <<>> /\ gui.dialog_existed
    /\ gui.dialog = "critical" =>
          gui.dialog_path = <<>> \/ ~gui.dialog_existed
    /\ gui.dialog # "none" => gui.dialog_path # <<>>
    /\ gui.hist # <<>> /\ gui.hist[1].event = "process" => gui.dialog # "none"

\* the chosen path went away before the click: the error dialog is open
C18_Witness ==
    /\ gui.dialog = "critical"
    /\ gui.dialog_path # <<>>
    /\ ~gui.dialog_existed

\* the two path fields
PathFields(g) == <<g.file_path_display, g.dir_path_display>>

\* the last event of the window g, "none" before the first
LastEvent(g) == IF g.hist = <<>> THEN "none" ELSE g.hist[1].event

\* C19: a radio click changes neither path field, a cancelled browse
\* changes nothing (fields, Process button, title), no step empties a
\* field, and a switch that follows a switch brings back the groups and
\* the Process button of before the first one.
C19_SwitchAndCancelFrame ==
    [][ /\ gui'.hist # gui.hist
             /\ LastEvent(gui') \in {"radio_switch", "radio_same"}
           => /\ PathFields(gui') = PathFields(gui)
              /\ gui'.window_title = gui.window_title
        /\ gui'.hist # gui.hist /\ LastEvent(gui') = "browse_cancel"
           => gui' = [gui EXCEPT !.hist = gui'.hist]
        /\ gui.file_path_display # <<>> => gui'.file_path_display # <<>>
        /\ gui.dir_path_display # <<>> => gui'.dir_path_display # <<>>
        /\ gui'.hist # gui.hist
             /\ LastEvent(gui') = "radio_switch"
             /\ LastEvent(gui) = "radio_switch"
           => View(gui') = gui.hist[1].view ]_vars

\* with a file chosen the user went to directory mode and came back: the
\* file group and the enabled Process button are there again
C19_Witness ==
    /\ Len(gui.hist) = 2
    /\ gui.hist[1].event = "radio_switch"
    /\ gui.hist[2].event = "radio_switch"
    /\ gui.file_radio
    /\ gui.file_path_display # <<>>
    /\ gui.process_button
    /\ gui.hist[1].view.process_button = FALSE

\* call c is in the resize branch and has computed new_width, new_height
SizeComputed(c) ==
    /\ pc[c] \in {"resize", "save", "getsize2", "done"}
    /\ ops[c].decode = 1
    /\ fault[c] # "decode"

\* C21: in the resize branch, with a positive budget and an image of at
\* least one pixel each way, each computed dimension is at least 0 and
\* strictly below the original one; nothing keeps it from being 0, and a
\* call whose resize or encode then raises returns its input path.
C21_ScaledBelowOriginal ==
    \A c \in Procs :
        SizeComputed(c) /\ max_size_mb[c] > 0
                        /\ img[c][1] >= 1 /\ img[c][2] >= 1
        => /\ 0 <= new_size[c][1] /\ new_size[c][1] < img[c][1]
           /\ 0 <= new_size[c][2] /\ new_size[c][2] < img[c][2]
           /\ img[c][2] = 1 => new_size[c][2] = 0
           /\ Done(c) /\ fault[c] \in {"resize", "encode", "encode_partial"}
              => result[c] = image_path[c]

\* a 20x1 image one byte over the budget came out 19x0, the resize to
\* that size raised, and the call returned its input path
C21_Witness ==
    \E c \in Procs :
        /\ Done(c) /\ SizeComputed(c)
        /\ img[c] = <<20, 1>>
        /\ new_size[c] = <<19, 0>>
        /\ fault[c] = "resize"
        /\ result[c] = image_path[c]

\* the last helper call sent an error record to the logger
LoggedError == \E i \in 1..Len(helper.log) : helper.log[i] = "ERROR"

\* C22: the helpers differ in what they do with a failure.  An output
\* directory that cannot be made leaves process_image_file as an exception
\* (nothing logged as an error); a file that cannot be read leaves
\* encode_image_to_base64, and one that cannot be opened as an image leaves
\* get_image_dimensions, as an exception after an error record.  A failed
\* copy never leaves process_image_file as an exception, and a failed
\* decode, resize or encode never leaves optimize_image_for_api as one.
C22_MixedErrorConventions ==
    /\ Called("process_image_file") =>
          /\ FolderBlocked => helper.outcome = "raised" /\ ~LoggedError
          /\ ~FolderBlocked => helper.outcome = "returned"
          /\ ~FolderBlocked /\ helper.image_path \notin DOMAIN store
                => helper.value = NoneValue /\ LoggedError
    /\ Called("encode_image_to_base64")
          /\ (helper.image_path \notin DOMAIN store
               \/ store[helper.image_path].kind # "file")
          => helper.outcome = "raised" /\ LoggedError
    /\ Called("get_image_dimensions")
          /\ (helper.image_path \notin DOMAIN store
               \/ store[helper.image_path].kind # "file"
               \/ store[helper.image_path].dims = <<>>)
          => helper.outcome = "raised" /\ LoggedError
    /\ \A c \in Procs :
          /\ pc[c] = "raised" => ops[c] = NoOps /\ ~StepFailed(c)
          /\ StepFailed(c) => Done(c) /\ result[c] = image_path[c]

\* optimize_image_for_api has handed its input path back after a failed
\* decode, and process_image_file has then raised on its output folder
C22_Witness ==
    /\ Done(Main)
    /\ fault[Main] = "decode"
    /\ result[Main] = image_path[Main]
    /\ Called("process_image_file")
    /\ FolderBlocked
    /\ helper.outcome = "raised"

=============================================================================
